---- MODULE Spec2Model ----
(***************************************************************************)
(* Plugin runtime of ALUMET: dynamic loading (load_cdylib), deferred       *)
(* construction (initialize), the DylibPlugin wrapper and its teardown,    *)
(* the static adapter, the PluginRegistry and the host's session driver.   *)
(***************************************************************************)
EXTENDS Integers, Sequences, FiniteSets, TLC

\* ------------------------------------------------------------------ bounds
MaxPlugins == 2      \* descriptor / instance slots the host may create
NumNames == 2        \* distinct plugin names
MaxHandle == 2       \* distinct non-null instance pointers plugin_init may return
MaxVer == 2          \* largest version component
MaxMissing == 1      \* symbols a library file may lack at once
MaxSessions == 2     \* start/stop sessions the host runs
MaxTables == 2       \* distinct sub-tables a configuration document may hold
MaxZones == 2        \* power zones handed to PowercapProbe::new
MaxEnergy == 1       \* largest max_energy_uj of a zone
MaxPolls == 3        \* polls of one probe
MaxDevices == 3      \* devices NVML may report

Slots == 1..MaxPlugins
Names == 1..NumNames
NoPlugin == 0
NoName == 0
NULL == 0
Handles == 1..MaxHandle

\* ------------------------------------------------------------------ versions
\* A version string is the sequence of its dot-separated components;
\* NonNumeric stands for a component that is not a number.
NonNumeric == -1
WellFormed == [1..3 -> 0..MaxVer]
Malformed == { <<>>, <<1, 2>>, <<1, 2, NonNumeric>>, <<1, 2, 0, 1>> }
VersionStrings == WellFormed \cup Malformed

ParseError == [major |-> -1, minor |-> -1, patch |-> -1]

\* Version::parse: three numeric components, nothing missing, nothing extra.
Version_parse(s) ==
    IF Len(s) = 3 /\ \A i \in 1..3 : s[i] >= 0
    THEN [major |-> s[1], minor |-> s[2], patch |-> s[3]]
    ELSE ParseError

\* Version::alumet(): the host's own version.
Version_alumet == [major |-> 1, minor |-> 1, patch |-> 1]

\* Version::can_load: same major line, (minor, patch) at least the required one.
can_load(host, required) ==
    /\ host.major = required.major
    /\ \/ host.minor > required.minor
       \/ host.minor = required.minor /\ host.patch >= required.patch

\* ------------------------------------------------------------------ library files
Symbols == << "PLUGIN_NAME", "PLUGIN_VERSION", "ALUMET_VERSION",
              "plugin_init", "plugin_start", "plugin_stop", "plugin_drop" >>
SymbolSet == { Symbols[i] : i \in 1..Len(Symbols) }
TextConstants == { "PLUGIN_NAME", "PLUGIN_VERSION", "ALUMET_VERSION" }

GoodFile(nm, ver) ==
    [openable |-> TRUE, exports |-> SymbolSet, undecodable |-> {},
     name |-> nm, alumet_version |-> ver]

\* The shared-library files handed to load_cdylib: one that does not open,
\* files that lack symbols, files with an undecodable text constant, and
\* sound files of every name and every required version.
Files ==
    { [GoodFile(1, <<1, 0, 0>>) EXCEPT !.openable = FALSE] }
    \cup { [GoodFile(1, ver) EXCEPT !.exports = SymbolSet \ m] :
             ver \in {<<1, 0, 0>>},
             m \in { x \in SUBSET SymbolSet : Cardinality(x) \in 1..MaxMissing } }
    \cup { [GoodFile(1, ver) EXCEPT !.undecodable = {c}] :
             ver \in {<<1, 0, 0>>, <<>>}, c \in TextConstants }
    \cup { GoodFile(1, ver) : ver \in VersionStrings }
    \cup { GoodFile(nm, <<1, 0, 0>>) : nm \in Names }

\* Index in Symbols of the first symbol lib.get fails to resolve, 0 if none.
FirstMissing(file) ==
    IF \A i \in 1..Len(Symbols) : Symbols[i] \in file.exports THEN 0
    ELSE CHOOSE i \in 1..Len(Symbols) :
            /\ Symbols[i] \notin file.exports
            /\ \A j \in 1..(i - 1) : Symbols[j] \in file.exports

\* sym_to_string: the text constant decodes as UTF-8 or not.
sym_to_string(file, sym) == sym \notin file.undecodable

\* A LoadError (or Ok, or the panic of todo!): kind is the enum variant, symbol
\* the String of InvalidSymbol, cause the wrapped source error; calls are the
\* foreign entry points invoked on the way.
Outcome(k, s, c) == [kind |-> k, symbol |-> s, cause |-> c, calls |-> <<>>]

\* From<libloading::Error> for LoadError
From_libloading(cause) == Outcome("LibraryLoad", "", cause)

\* A conversion that files a version error under the library-load errors.
From_version_as_library(cause) == Outcome("LibraryLoad", "", cause)

\* From<version::Error> for LoadError
From_version(cause) == Outcome("InvalidSymbol", "ALUMET_VERSION", cause)

\* load_cdylib that already calls plugin_init while loading.
load_cdylib_eager(file) ==
    IF ~file.openable THEN From_libloading("DlOpen")
    ELSE IF FirstMissing(file) # 0 THEN From_libloading("DlSym")
    ELSE IF ~sym_to_string(file, "PLUGIN_NAME")
         THEN Outcome("InvalidSymbol", "PLUGIN_NAME", "Utf8Error")
    ELSE IF ~sym_to_string(file, "PLUGIN_VERSION")
         THEN Outcome("InvalidSymbol", "PLUGIN_VERSION", "Utf8Error")
    ELSE IF ~sym_to_string(file, "ALUMET_VERSION")
         THEN Outcome("InvalidSymbol", "ALUMET_VERSION", "Utf8Error")
    ELSE IF Version_parse(file.alumet_version) = ParseError
         THEN From_version("ParseError")
    ELSE IF ~can_load(Version_alumet, Version_parse(file.alumet_version))
         THEN Outcome("Panic", "", "todo")
    ELSE [Outcome("Ok", "", "") EXCEPT !.calls = << [fn |-> "plugin_init", arg |-> 1] >>]

\* load_cdylib that forgets to resolve plugin_drop, the last symbol.
load_cdylib_six_symbols(file) ==
    IF ~file.openable THEN From_libloading("DlOpen")
    ELSE IF FirstMissing(file) \notin {0, Len(Symbols)} THEN From_libloading("DlSym")
    ELSE IF ~sym_to_string(file, "PLUGIN_NAME")
         THEN Outcome("InvalidSymbol", "PLUGIN_NAME", "Utf8Error")
    ELSE IF ~sym_to_string(file, "PLUGIN_VERSION")
         THEN Outcome("InvalidSymbol", "PLUGIN_VERSION", "Utf8Error")
    ELSE IF ~sym_to_string(file, "ALUMET_VERSION")
         THEN Outcome("InvalidSymbol", "ALUMET_VERSION", "Utf8Error")
    ELSE IF Version_parse(file.alumet_version) = ParseError
         THEN From_version("ParseError")
    ELSE IF ~can_load(Version_alumet, Version_parse(file.alumet_version))
         THEN Outcome("Panic", "", "todo")
    ELSE Outcome("Ok", "", "")

\* load_cdylib without the version gate.
load_cdylib_no_gate(file) ==
    IF ~file.openable THEN From_libloading("DlOpen")
    ELSE IF FirstMissing(file) # 0 THEN From_libloading("DlSym")
    ELSE IF ~sym_to_string(file, "PLUGIN_NAME")
         THEN Outcome("InvalidSymbol", "PLUGIN_NAME", "Utf8Error")
    ELSE IF ~sym_to_string(file, "PLUGIN_VERSION")
         THEN Outcome("InvalidSymbol", "PLUGIN_VERSION", "Utf8Error")
    ELSE IF ~sym_to_string(file, "ALUMET_VERSION")
         THEN Outcome("InvalidSymbol", "ALUMET_VERSION", "Utf8Error")
    ELSE IF Version_parse(file.alumet_version) = ParseError
         THEN From_version("ParseError")
    ELSE Outcome("Ok", "", "")

\* load_cdylib up to the construction of the PluginInfo.
load_cdylib(file) ==
    IF ~file.openable THEN From_libloading("DlOpen")
    ELSE IF FirstMissing(file) # 0 THEN From_libloading("DlSym")
    ELSE IF ~sym_to_string(file, "PLUGIN_NAME")
         THEN Outcome("InvalidSymbol", "PLUGIN_NAME", "Utf8Error")
    ELSE IF ~sym_to_string(file, "PLUGIN_VERSION")
         THEN Outcome("InvalidSymbol", "PLUGIN_VERSION", "Utf8Error")
    ELSE IF ~sym_to_string(file, "ALUMET_VERSION")
         THEN Outcome("InvalidSymbol", "ALUMET_VERSION", "Utf8Error")
    ELSE IF Version_parse(file.alumet_version) = ParseError
         THEN From_version("ParseError")
    ELSE IF ~can_load(Version_alumet, Version_parse(file.alumet_version))
         THEN Outcome("Panic", "", "todo")
    ELSE Outcome("Ok", "", "")

\* ------------------------------------------------------------------ configuration
\* A toml::Value by its kind (what Value::type_str reports); a table is
\* told from the other tables by its contents, id.
TypeStrings == { "string", "integer", "float", "boolean", "datetime", "array" }
Absent == [type |-> "absent", id |-> 0]
Table(t) == [type |-> "table", id |-> t]
Plain(ts) == [type |-> ts, id |-> 0]
Values == { Absent } \cup { Table(t) : t \in 1..MaxTables } \cup { Plain(ts) : ts \in TypeStrings }

\* The global configuration documents: one entry, or none, per plugin name.
Documents == [Names -> Values]

\* What plugin_subconfig returns: the table, or one of its two errors with
\* the plugin name and the kind of value found in its message.
SubOk(nm, t) == [kind |-> "Ok", name |-> nm, table |-> t, found |-> "table"]
SubInvalid(nm, ts) == [kind |-> "TypeMismatch", name |-> nm, table |-> 0, found |-> ts]
SubMissing(nm) == [kind |-> "Missing", name |-> nm, table |-> 0, found |-> "absent"]

\* A plugin_subconfig that looks the entry up without removing it.
plugin_subconfig_get(doc, nm) ==
    [doc |-> doc,
     ret |-> IF doc[nm].type = "table" THEN SubOk(nm, doc[nm].id)
             ELSE IF doc[nm].type # "absent" THEN SubInvalid(nm, doc[nm].type)
             ELSE SubMissing(nm)]

\* A plugin_subconfig that hands out an empty table for a value of another kind.
plugin_subconfig_lenient(doc, nm) ==
    [doc |-> [doc EXCEPT ![nm] = Absent],
     ret |-> IF doc[nm].type = "table" THEN SubOk(nm, doc[nm].id)
             ELSE IF doc[nm].type # "absent" THEN SubOk(nm, 0)
             ELSE SubMissing(nm)]

\* A plugin_subconfig that takes the whole document apart.
plugin_subconfig_clear(doc, nm) ==
    [doc |-> [k \in DOMAIN doc |-> Absent],
     ret |-> IF doc[nm].type = "table" THEN SubOk(nm, doc[nm].id)
             ELSE IF doc[nm].type # "absent" THEN SubInvalid(nm, doc[nm].type)
             ELSE SubMissing(nm)]

\* A plugin_subconfig that puts a value of the wrong kind back.
plugin_subconfig_restore(doc, nm) ==
    [doc |-> IF doc[nm].type = "table" THEN [doc EXCEPT ![nm] = Absent] ELSE doc,
     ret |-> IF doc[nm].type = "table" THEN SubOk(nm, doc[nm].id)
             ELSE IF doc[nm].type # "absent" THEN SubInvalid(nm, doc[nm].type)
             ELSE SubMissing(nm)]

\* plugin_subconfig: global_config.remove(name), then the match on what was
\* removed.
plugin_subconfig(doc, nm) ==
    [doc |-> [doc EXCEPT ![nm] = Absent],
     ret |-> IF doc[nm].type = "table" THEN SubOk(nm, doc[nm].id)
             ELSE IF doc[nm].type # "absent" THEN SubInvalid(nm, doc[nm].type)
             ELSE SubMissing(nm)]

\* No call yet.
SubNone == [kind |-> "none", name |-> NoName, table |-> 0, found |-> "absent"]

\* The document of the runtime model, which does not look into it. asked is
\* the name of the last call, was the value the document held under it, out
\* what the call returned, and first[nm] the kind of the first result for nm.
NoConfig == [doc |-> [nm \in Names |-> Absent], asked |-> NoName, was |-> Absent,
             out |-> SubNone, first |-> [nm \in Names |-> "none"]]

\* ------------------------------------------------------------------ powercap probe
\* A zone as PowercapProbe::new finds it: its max_energy_uj, or Unreadable
\* when its files cannot be opened, read or parsed.
Unreadable == -1
ZoneInputs == { Unreadable } \cup (1..MaxEnergy)
ZoneLists == UNION { [1..n -> ZoneInputs] : n \in 0..MaxZones }

\* CounterDiff: the largest value of the counter and the value of the last
\* update, NoValue before the first.
NoValue == -1
CounterDiff_with_max_value(m) == [max |-> m, prev |-> NoValue]

\* CounterDiff::update: the first value gives no difference; a value below
\* the previous one means the counter wrapped around at max.
CounterDiff_update(counter, v) ==
    [counter |-> [counter EXCEPT !.prev = v],
     kind |-> IF counter.prev = NoValue THEN "FirstTime"
              ELSE IF v < counter.prev THEN "CorrectedDifference"
              ELSE "Difference",
     diff |-> IF counter.prev = NoValue THEN 0
              ELSE IF v < counter.prev THEN counter.max - counter.prev + v + 1
              ELSE v - counter.prev]

\* PowercapProbe::new: at least one zone, and every zone readable.
PowercapProbe_new(zs) ==
    IF Len(zs) = 0 THEN [kind |-> "Err", zones |-> << >>]
    ELSE IF \E i \in 1..Len(zs) : zs[i] = Unreadable THEN [kind |-> "Err", zones |-> << >>]
    ELSE [kind |-> "Ok", zones |-> [i \in 1..Len(zs) |-> CounterDiff_with_max_value(zs[i])]]

\* What one poll reads from a zone's energy_uj: a counter value, or ReadError
\* when the rewind, the read or the parse fails.
ReadError == -1
AllReadings == UNION { [1..n -> { ReadError } \cup (0..MaxEnergy)] : n \in 1..MaxZones }
Readings(zones) == { r \in AllReadings :
                       /\ Len(r) = Len(zones)
                       /\ \A i \in 1..Len(zones) : r[i] <= zones[i].max }

\* A measurement point: the zone it is for, the difference it carries and the
\* counter update it came from.
MeasurementPoint(z, u) == [zone |-> z, value |-> u.diff, from |-> u.kind]

\* A match that takes a wrapped counter for no difference.
diff_drop_corrected(u) == u.kind = "Difference"

\* The match on the counter update: is there a difference to push?
diff(u) == u.kind # "FirstTime"

\* PowercapProbe::poll, from zone i on: an error returns at once, leaving the
\* counters updated and the points pushed so far.
RECURSIVE poll(_, _, _, _)
poll(zones, reads, i, pushed) ==
    IF i > Len(zones) THEN [zones |-> zones, pushed |-> pushed, ret |-> "Ok"]
    ELSE IF reads[i] = ReadError THEN [zones |-> zones, pushed |-> pushed, ret |-> "Err"]
    ELSE LET u == CounterDiff_update(zones[i], reads[i]) IN
         poll([zones EXCEPT ![i] = u.counter], reads, i + 1,
              IF diff(u) THEN Append(pushed, MeasurementPoint(i, u)) ELSE pushed)

\* No probe yet. polls counts the calls of poll, clean tells that all of them
\* succeeded, first is the set of zones the last poll observed for the first time.
NoProbe == [status |-> "none", zones |-> << >>, pushed |-> << >>, ret |-> "none",
            polls |-> 0, clean |-> TRUE, first |-> {}]

\* ------------------------------------------------------------------ nvidia plugin
\* The machine the plugin starts on: whether NvmlDevices::detect succeeds,
\* the devices it reports (TRUE a working device, FALSE one that failed and
\* was skipped), whether the metrics can be created, and the devices for
\* which NvmlSource::new fails.
Machines ==
    UNION { [detect : BOOLEAN, devices : [1..n -> BOOLEAN], metrics : BOOLEAN,
             failing : SUBSET (1..n)] : n \in 0..MaxDevices }

\* NvmlDevices::detection_stats: the devices found and, among them, the
\* working ones.
detection_stats(devices) ==
    [found_devices |-> Len(devices),
     working_devices |-> Cardinality({ i \in 1..Len(devices) : devices[i] })]

\* What start returns and the sources it has added to the pipeline, each by
\* the index of its device.
Started(ok, sources) == [ok |-> ok, sources |-> sources]

\* The loop over nvml.devices, from device i on: a source for every working
\* device, an error of NvmlSource::new returns at once.
RECURSIVE add_sources(_, _, _)
add_sources(m, i, sources) ==
    IF i > Len(m.devices) THEN Started(TRUE, sources)
    ELSE IF ~m.devices[i] THEN add_sources(m, i + 1, sources)
    ELSE IF i \in m.failing THEN Started(FALSE, sources)
    ELSE add_sources(m, i + 1, Append(sources, i))

\* A start that does not look at the number of working devices.
NvidiaPlugin_start_found_only(m) ==
    IF ~m.detect THEN Started(FALSE, << >>)
    ELSE IF detection_stats(m.devices).found_devices = 0 THEN Started(FALSE, << >>)
    ELSE IF ~m.metrics THEN Started(FALSE, << >>)
    ELSE add_sources(m, 1, << >>)

\* NvidiaPlugin::start
NvidiaPlugin_start(m) ==
    IF ~m.detect THEN Started(FALSE, << >>)
    ELSE IF detection_stats(m.devices).found_devices = 0 THEN Started(FALSE, << >>)
    ELSE IF detection_stats(m.devices).working_devices = 0 THEN Started(FALSE, << >>)
    ELSE IF ~m.metrics THEN Started(FALSE, << >>)
    ELSE add_sources(m, 1, << >>)

\* The plugin of the other specifications, which never start it.
NoMachine == [detect |-> FALSE, devices |-> << >>, metrics |-> FALSE, failing |-> {}]
NoNvidia == [machine |-> NoMachine, called |-> FALSE, ret |-> Started(TRUE, << >>)]

\* ------------------------------------------------------------------ state
VARIABLES
    state,      \* slot -> lifecycle state of the descriptor / instance
    kind,       \* slot -> "none" | "dylib" | "static"
    name,       \* slot -> plugin name (PluginInfo.name, DylibPlugin.name, P::name())
    library,    \* slot -> "none" | "open" | "closed": the libloading Library
    instance,   \* slot -> DylibPlugin.instance, NULL when there is none
    calls,      \* slot -> the plugin's entry points invoked so far, in order
    registry,   \* PluginRegistry.plugins: name -> slot, NoPlugin when absent
    result,     \* what the last operation returned to the host
    host,       \* "running" | "aborted" (panic) | "finished"
    session,    \* the host's lifecycle driver
    config,     \* the global configuration document and what plugin_subconfig returned
    probe,      \* the PowercapProbe, its counters and what its last poll pushed
    nvidia      \* the machine NvidiaPlugin::start runs on and what the call did

vars == << state, kind, name, library, instance, calls, registry, result, host, session,
           config, probe, nvidia >>

Live == { "Constructed", "Started", "Stopped" }

\* One call into a plugin's own code: the entry point and the instance pointer
\* it was given (for plugin_init, the pointer it returned).
Call(fn, h) == [fn |-> fn, arg |-> h]
Unload == Call("unload", NULL)

\* What the host sees of an operation: the operation, the slot it was about,
\* the library file it was given (load_cdylib only) and the value returned.
Result(op, p, out) ==
    [op |-> op, slot |-> p, input |-> {}, kind |-> out.kind, symbol |-> out.symbol]
Ok == Outcome("Ok", "", "")

Registered(p) == \E n \in Names : registry[n] = p

RuntimeInit ==
    /\ state = [p \in Slots |-> "Absent"]
    /\ kind = [p \in Slots |-> "none"]
    /\ name = [p \in Slots |-> NoName]
    /\ library = [p \in Slots |-> "none"]
    /\ instance = [p \in Slots |-> NULL]
    /\ calls = [p \in Slots |-> <<>>]
    /\ registry = [n \in Names |-> NoPlugin]
    /\ result = Result("none", NoPlugin, Ok)
    /\ host = "running"
    /\ session = [phase |-> "idle", n |-> 0, started |-> {}, posted |-> [p \in Slots |-> 0],
                  failed |-> "no"]

Init == RuntimeInit /\ config = NoConfig /\ probe = NoProbe /\ nvidia = NoNvidia

\* ------------------------------------------------------------------ loading
\* The host handles its plugins one after the other: the next one is loaded
\* once the one before is registered or has failed.
NextSlot(p) ==
    /\ state[p] = "Absent"
    /\ \A q \in 1..(p - 1) : state[q] \in {"Failed", "Destroyed"} \/ Registered(q)

\* The host loads, constructs and registers its plugins before it opens the
\* first session.
Setup == host = "running" /\ session.phase = "idle" /\ session.n = 0

\* The host loads a library file into slot p.  On an error after line 84 the
\* Library goes out of scope and is unloaded; on the todo!() panic the host
\* is gone.
Load(p, file) ==
    /\ Setup
    /\ NextSlot(p)
    /\ LET out == load_cdylib(file)
           opened == out.cause # "DlOpen" IN
       /\ result' = [Result("load_cdylib", p, out) EXCEPT !.input = {file}]
       /\ calls' = [calls EXCEPT ![p] = @ \o out.calls \o
                        (IF out.kind # "Ok" /\ opened THEN << Unload >> ELSE <<>>)]
       /\ state' = [state EXCEPT ![p] = IF out.kind = "Ok" THEN "Loaded" ELSE "Failed"]
       /\ kind' = [kind EXCEPT ![p] = "dylib"]
       /\ name' = [name EXCEPT ![p] = IF out.kind = "Ok" THEN file.name ELSE NoName]
       /\ library' = [library EXCEPT ![p] =
                        IF out.kind = "Ok" THEN "open"
                        ELSE IF opened THEN "closed" ELSE "none"]
       /\ host' = IF out.kind = "Panic" THEN "aborted" ELSE host
    /\ UNCHANGED << instance, registry, session, config, probe, nvidia >>

\* ------------------------------------------------------------------ construction
\* An init closure without the null check.
init_closure_unchecked(h) == [Ok EXCEPT !.calls = << Call("plugin_init", h) >>]

\* The init closure of the PluginInfo built by load_cdylib: one call of
\* plugin_init, a null pointer is LoadError::PluginInit.
init_closure(h) ==
    [ (IF h = NULL THEN Outcome("PluginInit", "", "") ELSE Ok)
      EXCEPT !.calls = << Call("plugin_init", h) >> ]

\* An initialize that calls the init closure before it looks at the conversion.
initialize_init_first(configConverts, h) ==
    IF ~configConverts
    THEN [Outcome("ConfigConversion", "", "context") EXCEPT !.calls = << Call("plugin_init", h) >>]
    ELSE init_closure(h)

\* initialize: ConfigTable::new(config) first, then the init closure.
initialize(configConverts, h) ==
    IF ~configConverts THEN Outcome("ConfigConversion", "", "context")
    ELSE init_closure(h)

\* The host consumes the descriptor in slot p.  The closure owns the Library:
\* when no DylibPlugin is built the Library is dropped with the closure.
Initialize(p, configConverts, h) ==
    /\ Setup
    /\ state[p] = "Loaded"
    /\ LET out == initialize(configConverts, h) IN
       /\ result' = Result("initialize", p, out)
       /\ calls' = [calls EXCEPT ![p] = @ \o out.calls \o
                        (IF out.kind # "Ok" THEN << Unload >> ELSE <<>>)]
       /\ state' = [state EXCEPT ![p] = IF out.kind = "Ok" THEN "Constructed" ELSE "Failed"]
       /\ instance' = [instance EXCEPT ![p] = IF out.kind = "Ok" THEN h ELSE NULL]
       /\ library' = [library EXCEPT ![p] = IF out.kind = "Ok" THEN "open" ELSE "closed"]
       /\ name' = [name EXCEPT ![p] = IF out.kind = "Ok" THEN @ ELSE NoName]
    /\ UNCHANGED << kind, registry, host, session, config, probe, nvidia >>

\* A typed plugin: what P::name() and P::version() return.
TypedPlugin(nm) == [name |-> nm, version |-> << 0, 1, 0 >>]
TypedPlugins == [name : Names, version : WellFormed]

\* Plugin::name and Plugin::version of the adapter: P::name(), P::version().
Static_name(P) == P.name
Static_version(P) == P.version

\* AlumetPlugin::init of a compiled-in plugin named nm.
InitStatic(p, nm, ok) ==
    /\ Setup
    /\ NextSlot(p)
    /\ result' = Result("AlumetPlugin::init", p, IF ok THEN Ok ELSE Outcome("Err", "", ""))
    /\ state' = [state EXCEPT ![p] = IF ok THEN "Constructed" ELSE "Failed"]
    /\ kind' = [kind EXCEPT ![p] = "static"]
    /\ name' = [name EXCEPT ![p] = IF ok THEN Static_name(TypedPlugin(nm)) ELSE NoName]
    /\ UNCHANGED << library, instance, calls, registry, host, session, config, probe, nvidia >>

\* ------------------------------------------------------------------ the wrapper
\* A start that calls the foreign entry point twice.
DylibPlugin_start_twice(h) ==
    [calls |-> << Call("plugin_start", h), Call("plugin_start", h) >>, ok |-> TRUE]

\* A stop that passes a null pointer.
DylibPlugin_stop_null(h) == [calls |-> << Call("plugin_stop", NULL) >>, ok |-> TRUE]

\* DylibPlugin::start and DylibPlugin::stop: one foreign call, then Ok(()).
DylibPlugin_start(h) == [calls |-> << Call("plugin_start", h) >>, ok |-> TRUE]
DylibPlugin_stop(h) == [calls |-> << Call("plugin_stop", h) >>, ok |-> TRUE]

\* impl<P: AlumetPlugin> Plugin for P: the typed operation's result, unchanged.
\* An adapter whose stop swallows the typed plugin's error.
Static_stop_swallow(r) == [calls |-> << Call("stop", NULL) >>, ok |-> TRUE]

\* An adapter that leaves post_startup to the trait's default no-op.
Static_post_startup_default(r) == [calls |-> <<>>, ok |-> TRUE]

\* Each performs one call of the typed plugin's operation.
Static_start(r) == [calls |-> << Call("start", NULL) >>, ok |-> r]
Static_stop(r) == [calls |-> << Call("stop", NULL) >>, ok |-> r]
Static_post_startup(r) == [calls |-> << Call("post_startup", NULL) >>, ok |-> r]

\* A teardown that unloads the library before it calls plugin_drop.
DylibPlugin_drop_unload_first(h) == << Unload, Call("plugin_drop", h) >>

\* Drop for DylibPlugin, then the drop of its fields: plugin_drop(instance)
\* first, the Library (field _library) after it.
DylibPlugin_drop(h) == << Call("plugin_drop", h), Unload >>

\* What dropping the Box<dyn Plugin> in slot q invokes.
DropCalls(q) == IF kind[q] = "dylib" THEN DylibPlugin_drop(instance[q]) ELSE <<>>

\* ------------------------------------------------------------------ registry
\* A register that inserts under another key than the plugin's name.
register_other_key(plugins, nm, p) ==
    LET k == CHOOSE k \in DOMAIN plugins : k # nm IN
    [plugins |-> [plugins EXCEPT ![k] = p], dropped |-> plugins[k], kind |-> "Ok"]

\* A register that leaks the entry it replaces.
register_leak(plugins, nm, p) ==
    [plugins |-> [plugins EXCEPT ![nm] = p], dropped |-> NoPlugin, kind |-> "Ok"]

\* PluginRegistry::register: HashMap::insert under plugin.name(); the value
\* insert returns (the entry it replaced) is dropped at once.
register(plugins, nm, p) ==
    [plugins |-> [plugins EXCEPT ![nm] = p], dropped |-> plugins[nm], kind |-> "Ok"]

\* PluginRegistry::get_mut
get_mut(plugins, nm) == plugins[nm]

Register(p) ==
    /\ Setup
    /\ state[p] \in Live /\ ~Registered(p)
    /\ LET r == register(registry, name[p], p)
           old == r.dropped IN
       /\ registry' = r.plugins
       /\ result' = [Result("register", p, Ok) EXCEPT !.kind = r.kind]
       /\ IF old # NoPlugin
          THEN /\ state' = [state EXCEPT ![old] = "Destroyed"]
               /\ calls' = [calls EXCEPT ![old] = @ \o DropCalls(old)]
               /\ library' = [library EXCEPT ![old] =
                                IF kind[old] = "dylib" THEN "closed" ELSE @]
               /\ name' = [name EXCEPT ![old] = NoName]
               /\ instance' = [instance EXCEPT ![old] = NULL]
          ELSE UNCHANGED << state, calls, library, name, instance >>
    /\ UNCHANGED << kind, host, session, config, probe, nvidia >>

\* The host finishes: the registry and everything else it still owns is
\* dropped (instances through their Drop, unused descriptors with their
\* Library).
Teardown ==
    /\ host = "running" /\ session.phase = "idle"
    /\ \E p \in Slots : state[p] # "Absent"
    /\ host' = "finished"
    /\ registry' = [n \in Names |-> NoPlugin]
    /\ state' = [p \in Slots |->
                    IF state[p] \in Live \cup {"Loaded"} THEN "Destroyed" ELSE state[p]]
    /\ calls' = [p \in Slots |->
                    IF state[p] \in Live THEN calls[p] \o DropCalls(p)
                    ELSE IF state[p] = "Loaded" THEN calls[p] \o << Unload >>
                    ELSE calls[p]]
    /\ library' = [p \in Slots |->
                    IF state[p] \in Live \cup {"Loaded"} /\ kind[p] = "dylib"
                    THEN "closed" ELSE library[p]]
    /\ name' = [p \in Slots |-> NoName]
    /\ instance' = [p \in Slots |-> NULL]
    /\ result' = Result("teardown", NoPlugin, Ok)
    /\ UNCHANGED << kind, session, config, probe, nvidia >>

\* ------------------------------------------------------------------ sessions
RegisteredSlots == { p \in Slots : Registered(p) }

\* Plugin::start / stop / post_startup on the instance in slot p, through the
\* uniform interface; r is what a typed (static) plugin's operation returns.
Plugin_start(p, r) == IF kind[p] = "dylib" THEN DylibPlugin_start(instance[p]) ELSE Static_start(r)
Plugin_stop(p, r) == IF kind[p] = "dylib" THEN DylibPlugin_stop(instance[p]) ELSE Static_stop(r)
Plugin_post_startup(p, r) == IF kind[p] = "dylib" THEN [calls |-> <<>>, ok |-> TRUE] ELSE Static_post_startup(r)

\* The host opens a session over the registered plugins; a startup that
\* failed was its last.
BeginSession ==
    /\ host = "running" /\ session.phase = "idle" /\ session.failed = "no"
    /\ session.n < MaxSessions
    /\ RegisteredSlots # {}
    /\ session' = [session EXCEPT !.phase = "starting"]
    /\ result' = Result("session", NoPlugin, Ok)
    /\ UNCHANGED << state, kind, name, library, instance, calls, registry, host, config, probe, nvidia >>

\* Which plugin the driver starts next: the registered plugins in turn.
CanStart(p) ==
    /\ Registered(p) /\ p \notin session.started
    /\ \A q \in RegisteredSlots : q < p => q \in session.started

\* start() of one registered plugin; a failure ends the startup phase.
StartPlugin(p, r) ==
    /\ host = "running" /\ session.phase = "starting"
    /\ CanStart(p)
    /\ get_mut(registry, name[p]) = p
    /\ LET s == Plugin_start(p, r)
           now == session.started \cup {p} IN
       /\ calls' = [calls EXCEPT ![p] = @ \o s.calls]
       /\ result' = Result("start", p, IF s.ok THEN Ok ELSE Outcome("Err", "", ""))
       /\ state' = [state EXCEPT ![p] = IF s.ok THEN "Started" ELSE @]
       /\ session' = IF ~s.ok
                     THEN [session EXCEPT !.phase = "stopping", !.failed = "start"]
                     ELSE [session EXCEPT !.started = now,
                                          !.phase = IF now = RegisteredSlots
                                                    THEN "post_startup" ELSE "starting"]
    /\ UNCHANGED << kind, name, library, instance, registry, host, config, probe, nvidia >>

\* Which plugin the driver notifies next: the registered plugins in turn.
CanPostStartup(p) ==
    /\ Registered(p) /\ session.posted[p] = 0
    /\ \A q \in RegisteredSlots : q < p => session.posted[q] = 1

\* post_startup() of one plugin, once every start() of the session succeeded.
PostStartup(p, r) ==
    /\ host = "running" /\ session.phase = "post_startup"
    /\ CanPostStartup(p)
    /\ get_mut(registry, name[p]) = p
    /\ LET s == Plugin_post_startup(p, r)
           posted == [session.posted EXCEPT ![p] = @ + 1] IN
       /\ calls' = [calls EXCEPT ![p] = @ \o s.calls]
       /\ result' = Result("post_startup", p, IF s.ok THEN Ok ELSE Outcome("Err", "", ""))
       /\ session' = [session EXCEPT
                        !.posted = posted,
                        !.failed = IF s.ok THEN "no" ELSE "post_startup",
                        !.phase = IF ~s.ok THEN "stopping"
                                  ELSE IF \A q \in RegisteredSlots : posted[q] = 1
                                       THEN "running" ELSE "post_startup"]
    /\ UNCHANGED << state, kind, name, library, instance, registry, host, config, probe, nvidia >>

\* The pipeline has run; the host begins to stop the plugins.
EndRun ==
    /\ host = "running" /\ session.phase = "running"
    /\ session' = [session EXCEPT !.phase = "stopping"]
    /\ result' = Result("run", NoPlugin, Ok)
    /\ UNCHANGED << state, kind, name, library, instance, calls, registry, host, config, probe, nvidia >>

\* Which plugin the driver stops next: the started plugins in turn.
CanStop(p) == p \in session.started /\ \A q \in session.started : p <= q

\* stop() of one started plugin.
StopPlugin(p, r) ==
    /\ host = "running" /\ session.phase = "stopping"
    /\ CanStop(p)
    /\ get_mut(registry, name[p]) = p
    /\ LET s == Plugin_stop(p, r) IN
       /\ calls' = [calls EXCEPT ![p] = @ \o s.calls]
       /\ result' = Result("stop", p, IF s.ok THEN Ok ELSE Outcome("Err", "", ""))
       /\ state' = [state EXCEPT ![p] = "Stopped"]
       /\ session' = [session EXCEPT !.started = @ \ {p}]
    /\ UNCHANGED << kind, name, library, instance, registry, host, config, probe, nvidia >>

\* Every started plugin is stopped: the session is over.
EndSession ==
    /\ host = "running" /\ session.phase = "stopping"
    /\ session.started = {}
    /\ session' = [session EXCEPT !.phase = "idle", !.n = @ + 1,
                                   !.posted = [p \in Slots |-> 0]]
    /\ result' = Result("session_end", NoPlugin, Ok)
    /\ UNCHANGED << state, kind, name, library, instance, calls, registry, host, config, probe, nvidia >>

\* ------------------------------------------------------------------ configuration hand-off
runtime_vars == << state, kind, name, library, instance, calls, registry, result, host, session >>

\* The host starts from any document.
ConfigInit ==
    /\ RuntimeInit /\ probe = NoProbe /\ nvidia = NoNvidia
    /\ \E d \in Documents : config = [NoConfig EXCEPT !.doc = d]

\* The host asks for the sub-table of the plugin named nm.
PluginSubconfig(nm) ==
    /\ LET r == plugin_subconfig(config.doc, nm) IN
       config' = [doc |-> r.doc, asked |-> nm, was |-> config.doc[nm], out |-> r.ret,
                  first |-> IF config.first[nm] = "none"
                            THEN [config.first EXCEPT ![nm] = r.ret.kind]
                            ELSE config.first]
    /\ UNCHANGED << runtime_vars, probe, nvidia >>

ConfigNext == \E nm \in Names : PluginSubconfig(nm)

SpecConfig == ConfigInit /\ [][ConfigNext]_vars

\* ------------------------------------------------------------------ polling
ProbeInit == RuntimeInit /\ config = NoConfig /\ probe = NoProbe /\ nvidia = NoNvidia

\* The plugin builds its probe from the zones it found.
NewProbe(zs) ==
    /\ probe.status = "none"
    /\ LET r == PowercapProbe_new(zs) IN
       probe' = [probe EXCEPT !.status = IF r.kind = "Ok" THEN "ready" ELSE "failed",
                              !.zones = r.zones, !.ret = r.kind]
    /\ UNCHANGED << runtime_vars, config, nvidia >>

\* The pipeline polls the probe with an empty accumulator.
Poll(reads) ==
    /\ probe.status = "ready"
    /\ probe.polls < MaxPolls
    /\ reads \in Readings(probe.zones)
    /\ LET r == poll(probe.zones, reads, 1, << >>) IN
       probe' = [probe EXCEPT !.zones = r.zones, !.pushed = r.pushed, !.ret = r.ret,
                              !.polls = @ + 1,
                              !.clean = @ /\ r.ret = "Ok",
                              !.first = { i \in 1..Len(r.zones) :
                                            probe.zones[i].prev = NoValue /\ r.zones[i].prev # NoValue }]
    /\ UNCHANGED << runtime_vars, config, nvidia >>

ProbeNext ==
    \/ \E zs \in ZoneLists : NewProbe(zs)
    \/ \E reads \in AllReadings : Poll(reads)

SpecProbe == ProbeInit /\ [][ProbeNext]_vars

\* ------------------------------------------------------------------ nvidia start
\* The plugin sits on any machine, not started yet.
NvidiaInit ==
    /\ RuntimeInit /\ config = NoConfig /\ probe = NoProbe
    /\ \E m \in Machines : nvidia = [NoNvidia EXCEPT !.machine = m]

\* The host starts the plugin with a pipeline that has no source of it yet.
NvidiaStart ==
    /\ ~nvidia.called
    /\ nvidia' = [nvidia EXCEPT !.called = TRUE, !.ret = NvidiaPlugin_start(nvidia.machine)]
    /\ UNCHANGED << runtime_vars, config, probe >>

NvidiaNext == NvidiaStart

SpecNvidia == NvidiaInit /\ [][NvidiaNext]_vars

\* ------------------------------------------------------------------ properties
HasCall(s, fn) == \E i \in 1..Len(s) : s[i].fn = fn
CountCalls(s, fn) == Cardinality({ i \in 1..Len(s) : s[i].fn = fn })

\* The version test as section 4.1 of the specification words it.
Compatible(h, r) ==
    /\ h.major = r.major
    /\ \/ h.minor > r.minor
       \/ h.minor = r.minor /\ h.patch >= r.patch

\* C1: registering an instance under a name that is already present fails
\* with a naming-conflict error and leaves the registry as it was, so the
\* first registered instance stays the one get_mut returns.
C1_DuplicateRegisterRejected ==
    [][\A p \in Slots :
        (Register(p) /\ get_mut(registry, name[p]) # NoPlugin)
        => /\ result'.kind = "NamingConflict"
           /\ registry' = registry
           /\ get_mut(registry', name[p]) = get_mut(registry, name[p])]_vars

\* The file of the load_cdylib call that has just returned into slot p.
JustLoaded(p, f) == result.op = "load_cdylib" /\ result.slot = p /\ f \in result.input

\* The file is sound up to the version gate: it opens, exports the seven
\* symbols, its constants decode and its required version is well formed.
ReachesGate(f) ==
    /\ f.openable /\ f.exports = SymbolSet /\ f.undecodable = {}
    /\ Version_parse(f.alumet_version) # ParseError

\* C2: when the host cannot load the version the plugin requires,
\* load_cdylib returns a version-mismatch error value for that plugin and
\* the host keeps running.
C2_VersionMismatchIsAnError ==
    \A p \in Slots, f \in result.input :
        (/\ JustLoaded(p, f) /\ ReachesGate(f)
         /\ ~Compatible(Version_alumet, Version_parse(f.alumet_version)))
        => /\ host = "running"
           /\ result.kind = "VersionMismatch"

\* The file lacks exactly the symbol sym.
LacksExactly(f, sym) == f.openable /\ f.exports = SymbolSet \ {sym}

C4_DescriptorOnlyIfCompatible ==
    /\ \A p \in Slots, f \in result.input :
            JustLoaded(p, f) =>
                LET req == Version_parse(f.alumet_version) IN
                /\ state[p] = "Loaded" => req # ParseError /\ Compatible(Version_alumet, req)
                /\ (req # ParseError /\ ~Compatible(Version_alumet, req))
                   => /\ state[p] = "Failed" /\ instance[p] = NULL
                      /\ ~HasCall(calls[p], "plugin_init")
    /\ \A p \in Slots :
            state[p] = "Failed" => instance[p] = NULL /\ ~Registered(p)

\* A load refused by the version gate, next to a plugin that did load:
\* nothing was loaded or constructed for the refused one.
C4_Witness ==
    \E p \in Slots, f \in result.input :
        /\ JustLoaded(p, f) /\ ReachesGate(f)
        /\ ~Compatible(Version_alumet, Version_parse(f.alumet_version))
        /\ state[p] = "Failed" /\ instance[p] = NULL
        /\ \E q \in Slots : q # p /\ state[q] \in Live /\ kind[q] = "dylib"

Starts == { "plugin_start", "start" }
Stops == { "plugin_stop", "stop" }

\* What plugin_init returned in the log s, NULL when it was not called.
InitReturned(s) ==
    IF HasCall(s, "plugin_init")
    THEN s[CHOOSE i \in 1..Len(s) : s[i].fn = "plugin_init"].arg
    ELSE NULL

\* C5: for a dynamic instance plugin_drop is invoked right before its
\* library is unloaded, and no entry point of a library is invoked once the
\* library is unloaded.
C5_DropBeforeUnload ==
    \A p \in Slots :
        kind[p] = "dylib" =>
            /\ \A i \in 1..Len(calls[p]) :
                  calls[p][i] = Unload =>
                      /\ i = Len(calls[p])
                      /\ InitReturned(calls[p]) # NULL
                         => i > 1 /\ calls[p][i - 1].fn = "plugin_drop"
            /\ library[p] = "closed" <=> HasCall(calls[p], "unload")
            /\ HasCall(calls[p], "plugin_drop") => library[p] = "closed"

\* A dynamic instance that was started, stopped and torn down.
C5_Witness ==
    \E p \in Slots :
        /\ kind[p] = "dylib" /\ state[p] = "Destroyed" /\ library[p] = "closed"
        /\ HasCall(calls[p], "plugin_start") /\ HasCall(calls[p], "plugin_stop")
        /\ HasCall(calls[p], "plugin_drop")

\* C6: a dynamic instance that was constructed has plugin_drop invoked
\* exactly once, with the pointer plugin_init returned, at the step in which
\* it leaves the registry; never while it is registered, never twice, and
\* not zero times once the host is done.
C6_DroppedExactlyOnce ==
    [][\A p \in Slots :
        (kind'[p] = "dylib" /\ InitReturned(calls'[p]) # NULL) =>
            LET before == CountCalls(calls[p], "plugin_drop")
                after == CountCalls(calls'[p], "plugin_drop")
                leaves == Registered(p) /\ ~(\E n \in Names : registry'[n] = p) IN
            /\ after <= 1
            /\ leaves => before = 0 /\ after = 1
            /\ (\E n \in Names : registry'[n] = p) => after = 0
            /\ \A i \in 1..Len(calls'[p]) :
                  calls'[p][i].fn = "plugin_drop" => calls'[p][i].arg = InitReturned(calls'[p])
            /\ host' = "finished" => after = 1]_vars

\* A dynamic instance replaced in the registry by a later one of its name:
\* it was dropped while the host goes on.
C6_Witness ==
    \E p, q \in Slots :
        /\ p # q /\ kind[p] = "dylib" /\ state[p] = "Destroyed" /\ host = "running"
        /\ InitReturned(calls[p]) # NULL
        /\ CountCalls(calls[p], "plugin_drop") = 1
        /\ Registered(q) /\ result.op = "register" /\ result.slot = q

\* C7: when plugin_init returns null the constructor fails with the
\* plugin-init error, there is no instance, and plugin_start, plugin_stop
\* and plugin_drop are never invoked for that plugin.
C7_NullInitIsAFailure ==
    \A p \in Slots :
        (\E i \in 1..Len(calls[p]) : calls[p][i] = Call("plugin_init", NULL)) =>
            /\ state[p] = "Failed" /\ instance[p] = NULL /\ ~Registered(p)
            /\ \A i \in 1..Len(calls[p]) :
                  calls[p][i].fn \notin {"plugin_start", "plugin_stop", "plugin_drop"}
            /\ (result.op = "initialize" /\ result.slot = p) => result.kind = "PluginInit"

\* A plugin whose init returned null, after a session of the others.
C7_Witness ==
    \E p \in Slots :
        /\ calls[p] = << Call("plugin_init", NULL), Unload >>
        /\ state[p] = "Failed" /\ session.n >= 1

\* C8: load_cdylib never invokes plugin_init; plugin_init is invoked only by
\* the descriptor's constructor, which consumes the descriptor, and at most
\* once per descriptor.
C8_InitOnlyAtConstruction ==
    \A p \in Slots :
        /\ CountCalls(calls[p], "plugin_init") <= 1
        /\ state[p] \in {"Absent", "Loaded"} => ~HasCall(calls[p], "plugin_init")
        /\ (result.op = "load_cdylib" /\ result.slot = p) => ~HasCall(calls[p], "plugin_init")
        /\ (result.op = "initialize" /\ result.slot = p) => state[p] \in {"Constructed", "Failed"}
        /\ (result.op = "initialize" /\ result.slot = p /\ result.kind \in {"Ok", "PluginInit"})
           => CountCalls(calls[p], "plugin_init") = 1

\* A descriptor consumed by a successful construction: one call of init.
C8_Witness ==
    \E p \in Slots :
        /\ result.op = "initialize" /\ result.slot = p /\ result.kind = "Ok"
        /\ state[p] = "Constructed" /\ CountCalls(calls[p], "plugin_init") = 1

\* The start and stop calls of the log s, in order.
StartStop(s) == SelectSeq(s, LAMBDA c : c.fn \in Starts \cup Stops)

Alternates(s) ==
    \A i \in 1..Len(StartStop(s)) :
        IF i % 2 = 1 THEN StartStop(s)[i].fn \in Starts ELSE StartStop(s)[i].fn \in Stops

\* C9: on every instance start and stop alternate, beginning with start:
\* start is never invoked on an instance that is Started, stop only on one
\* that is.
C9_StartStopAlternate ==
    [][/\ \A p \in Slots, r \in BOOLEAN :
            /\ StartPlugin(p, r) => state[p] \in {"Constructed", "Stopped"}
            /\ StopPlugin(p, r) => state[p] = "Started"
       /\ \A p \in Slots : Alternates(calls'[p])]_vars

\* A dynamic instance restarted in a second session.
C9_Witness ==
    \E p \in Slots :
        /\ kind[p] = "dylib" /\ state[p] = "Started" /\ session.n = 1
        /\ Len(StartStop(calls[p])) = 3

\* C10: in a session post_startup runs once for every registered plugin,
\* only after the start() of every registered plugin has succeeded; when a
\* start() fails it runs for none.
C10_PostStartupAfterAllStarts ==
    [][/\ \A p \in Slots, r \in BOOLEAN :
            PostStartup(p, r) =>
                /\ \A q \in RegisteredSlots : state[q] = "Started" /\ q \in session.started
                /\ session.failed = "no" /\ session.posted[p] = 0
                /\ session'.posted[p] = 1
                /\ kind[p] = "static" =>
                      CountCalls(calls'[p], "post_startup")
                          = CountCalls(calls[p], "post_startup") + 1
       /\ session'.phase = "running" => \A q \in RegisteredSlots : session'.posted[q] = 1
       /\ \A q \in Slots : session'.posted[q] <= 1
       /\ session'.failed = "start" => \A q \in Slots : session'.posted[q] = 0]_vars

\* A running session over two plugins, one of them static: each had its
\* post_startup.
C10_Witness ==
    /\ session.phase = "running"
    /\ Cardinality(RegisteredSlots) >= 2
    /\ \A q \in RegisteredSlots : session.posted[q] = 1
    /\ \E q \in RegisteredSlots : kind[q] = "static" /\ HasCall(calls[q], "post_startup")

\* A step in which the host asked for the sub-table of nm.
Asks(nm) == config'.asked = nm

\* C11: plugin_subconfig on a document that holds a table under the plugin's
\* name returns that table and removes the entry; once a plugin was handed its
\* table, every later plugin_subconfig for it on the same document fails with
\* the missing-configuration error naming the plugin.
C11_SectionHandedOutOnce ==
    [][\A nm \in Names : Asks(nm) =>
          /\ config.doc[nm].type = "table" =>
                /\ config'.out = SubOk(nm, config.doc[nm].id)
                /\ config'.doc[nm] = Absent
          /\ config.first[nm] = "Ok" => config'.out = SubMissing(nm)]_vars

\* A plugin that got its table has asked again and was told it is missing.
C11_Witness ==
    /\ config.asked \in Names
    /\ config.first[config.asked] = "Ok"
    /\ config.out = SubMissing(config.asked)

\* C12: plugin_subconfig on a document whose value under the plugin's name is
\* not a table fails with the type-mismatch error naming the plugin and the
\* kind of the value found; no table is returned and the host keeps running.
C12_NonTableIsATypeMismatch ==
    config.was.type \in TypeStrings =>
        /\ config.out = SubInvalid(config.asked, config.was.type)
        /\ config.out.kind # "Ok"
        /\ host = "running"

\* The plugin's entry was a list, and the call reported it.
C12_Witness ==
    /\ config.was.type = "array"
    /\ config.out.kind = "TypeMismatch"
    /\ config.out.found = "array"

\* C18: plugin_subconfig for one plugin changes at most the entry under that
\* plugin's name, whether it succeeds or fails, and what a plugin receives
\* does not depend on whether another plugin asked before it.
C18_OnlyOwnEntryChanges ==
    [][/\ \A nm, k \in Names : Asks(nm) /\ k # nm => config'.doc[k] = config.doc[k]
       /\ \A a, b \in Names : a # b =>
             plugin_subconfig(plugin_subconfig(config.doc, a).doc, b).ret
                 = plugin_subconfig(config.doc, b).ret]_vars

\* One plugin's call failed on a value of the wrong kind, and another plugin
\* still got its table afterwards.
C18_Witness ==
    \E a, b \in Names :
        /\ a # b
        /\ config.first[a] = "TypeMismatch"
        /\ config.asked = b
        /\ config.out.kind = "Ok"
        /\ config.was = Table(config.out.table)

\* C19: a plugin_subconfig that fails with the type-mismatch has removed the
\* offending entry: every later plugin_subconfig for the same plugin reports
\* the missing configuration.
C19_MismatchConsumesTheEntry ==
    [][\A nm \in Names : Asks(nm) =>
          /\ config.doc[nm].type \in TypeStrings => config'.doc[nm] = Absent
          /\ config.first[nm] = "TypeMismatch" => config'.out = SubMissing(nm)]_vars

\* A plugin whose entry had the wrong kind has asked again.
C19_Witness ==
    /\ config.asked \in Names
    /\ config.first[config.asked] = "TypeMismatch"
    /\ config.out.kind = "Missing"
    /\ config.doc[config.asked] = Absent

\* C13: while the registry lives, get_mut(name) returns an instance if and
\* only if one was registered under that name, the instance it returns is
\* alive and bears the looked-up name, and it is not-found otherwise.
C13_LookupFindsWhatWasRegistered ==
    [][host' = "running" =>
          \A n \in Names :
              /\ get_mut(registry', n) # NoPlugin
                    <=> \/ get_mut(registry, n) # NoPlugin
                        \/ \E p \in Slots : Register(p) /\ name[p] = n
              /\ get_mut(registry', n) # NoPlugin =>
                    /\ name'[get_mut(registry', n)] = n
                    /\ state'[get_mut(registry', n)] \in Live]_vars

\* After a register, one name is found and another is not.
C13_Witness ==
    /\ result.op = "register"
    /\ host = "running"
    /\ \E n, m \in Names :
          /\ get_mut(registry, n) = result.slot
          /\ name[result.slot] = n
          /\ get_mut(registry, m) = NoPlugin

\* The file is sound up to Version::parse, and its required version is not a
\* well-formed MAJOR.MINOR.PATCH string.
MalformedRequirement(f) ==
    /\ f.openable /\ f.exports = SymbolSet /\ f.undecodable = {}
    /\ f.alumet_version \in Malformed

\* C14: when the required host-API version is malformed, load_cdylib fails
\* with an error of a version category, which is neither the symbol nor the
\* library-load category; no descriptor, and plugin_init is never invoked.
C14_MalformedVersionIsAVersionError ==
    \A p \in Slots, f \in result.input :
        (JustLoaded(p, f) /\ MalformedRequirement(f))
        => /\ result.kind \notin { "Ok", "InvalidSymbol", "LibraryLoad" }
           /\ state[p] = "Failed"
           /\ ~HasCall(calls[p], "plugin_init")

\* C14 amended: when the required host-API version is malformed, load_cdylib
\* fails with the invalid-symbol error naming ALUMET_VERSION (the symbol
\* category, not the library-load one); no descriptor is returned, no
\* instance exists and plugin_init is never invoked.
C14_MalformedVersionIsAnInvalidSymbol ==
    \A p \in Slots, f \in result.input :
        (JustLoaded(p, f) /\ MalformedRequirement(f))
        => /\ result.kind = "InvalidSymbol"
           /\ result.symbol = "ALUMET_VERSION"
           /\ state[p] = "Failed" /\ instance[p] = NULL
           /\ calls[p] = << Unload >>
           /\ host = "running"

\* A load that failed on the requirement "1.2": the library was closed again.
C14_Witness ==
    \E p \in Slots, f \in result.input :
        /\ JustLoaded(p, f) /\ MalformedRequirement(f)
        /\ f.alumet_version = << 1, 2 >>
        /\ result.kind = "InvalidSymbol"
        /\ state[p] = "Failed" /\ library[p] = "closed"

\* C15: for a static plugin, each call on the uniform interface performs
\* exactly one call of the typed plugin's operation of the same name and
\* returns its result unchanged, errors included; name and version are the
\* typed plugin's own.
C15_StaticAdapterIsTransparent ==
    [][/\ \A P \in TypedPlugins : Static_name(P) = P.name /\ Static_version(P) = P.version
       /\ \A p \in Slots, r \in BOOLEAN :
             kind[p] = "static" =>
                /\ StartPlugin(p, r) =>
                      /\ calls'[p] = Append(calls[p], Call("start", NULL))
                      /\ (result'.kind = "Ok") <=> r
                /\ StopPlugin(p, r) =>
                      /\ calls'[p] = Append(calls[p], Call("stop", NULL))
                      /\ (result'.kind = "Ok") <=> r
                /\ PostStartup(p, r) =>
                      /\ calls'[p] = Append(calls[p], Call("post_startup", NULL))
                      /\ (result'.kind = "Ok") <=> r]_vars

\* A static plugin that was started and notified, and whose stop failed:
\* the host saw the error, after one typed call of each.
C15_Witness ==
    \E p \in Slots :
        /\ kind[p] = "static"
        /\ result.op = "stop" /\ result.slot = p /\ result.kind = "Err"
        /\ calls[p] = << Call("start", NULL), Call("post_startup", NULL), Call("stop", NULL) >>

\* The entry points that take the instance pointer.
OnInstance == { "plugin_start", "plugin_stop", "plugin_drop" }

\* C16: each start() or stop() of a dynamic instance invokes the foreign
\* entry point of that name exactly once, with the instance pointer that
\* plugin_init returned, and reports success; the pointer the wrapper holds
\* never changes between construction and drop.
C16_WrapperPassesItsHandle ==
    [][\A p \in Slots :
          kind[p] = "dylib" =>
             /\ \A r \in BOOLEAN :
                   /\ StartPlugin(p, r) =>
                         /\ calls'[p] = Append(calls[p], Call("plugin_start", InitReturned(calls[p])))
                         /\ result'.kind = "Ok"
                   /\ StopPlugin(p, r) =>
                         /\ calls'[p] = Append(calls[p], Call("plugin_stop", InitReturned(calls[p])))
                         /\ result'.kind = "Ok"
             /\ (state[p] \in Live /\ state'[p] \in Live) => instance'[p] = instance[p]
             /\ state'[p] \in Live =>
                   /\ instance'[p] # NULL
                   /\ instance'[p] = InitReturned(calls'[p])
             /\ \A i \in 1..Len(calls'[p]) :
                   calls'[p][i].fn \in OnInstance => calls'[p][i].arg = InitReturned(calls'[p])]_vars

\* A dynamic instance built on the second pointer value, started and stopped
\* with it.
C16_Witness ==
    \E p \in Slots :
        /\ kind[p] = "dylib" /\ state[p] = "Stopped"
        /\ instance[p] = MaxHandle
        /\ calls[p] = << Call("plugin_init", MaxHandle), Call("plugin_start", MaxHandle),
                         Call("plugin_stop", MaxHandle) >>

\* C17: when the conversion of the sub-table fails, initialize returns the
\* conversion error, no instance is produced, and plugin_init, plugin_start,
\* plugin_stop and plugin_drop are never invoked for that descriptor.
C17_ConversionFailureSkipsInit ==
    /\ \A p \in Slots :
          (result.op = "initialize" /\ result.slot = p /\ result.kind = "ConfigConversion")
          => /\ state[p] = "Failed" /\ instance[p] = NULL
             /\ calls[p] = << Unload >>
    /\ \A p \in Slots :
          (state[p] = "Failed" /\ ~HasCall(calls[p], "plugin_init"))
          => \A fn \in OnInstance : ~HasCall(calls[p], fn)

\* A construction that failed on the conversion while another plugin was
\* constructed: the descriptor is gone and its library closed.
C17_Witness ==
    \E p, q \in Slots :
        /\ result.op = "initialize" /\ result.slot = p /\ result.kind = "ConfigConversion"
        /\ state[p] = "Failed" /\ library[p] = "closed"
        /\ state[q] \in Live

\* How many points the last poll pushed for zone z.
PushedFor(z) == Cardinality({ i \in 1..Len(probe.pushed) : probe.pushed[i].zone = z })

\* C20: while every poll of the probe has succeeded, a poll pushes at most
\* one measurement per zone: none for a zone on the poll that observes it for
\* the first time, which is the first poll, and exactly one on every later
\* poll, a poll on which the counter wrapped around included.
C20_OnePointPerZoneAfterTheFirstPoll ==
    (probe.status = "ready" /\ probe.polls >= 1 /\ probe.clean) =>
        /\ probe.ret = "Ok"
        /\ probe.first = (IF probe.polls = 1 THEN 1..Len(probe.zones) ELSE {})
        /\ \A z \in 1..Len(probe.zones) :
              /\ PushedFor(z) <= 1
              /\ z \in probe.first => PushedFor(z) = 0
              /\ probe.polls > 1 => PushedFor(z) = 1
        /\ \A i \in 1..Len(probe.pushed) :
              /\ probe.pushed[i].zone \in 1..Len(probe.zones)
              /\ probe.pushed[i].from \in { "Difference", "CorrectedDifference" }

\* A later poll of two zones, all polls successful: the counter of one zone
\* wrapped around, and both zones got their point.
C20_Witness ==
    /\ probe.status = "ready" /\ probe.clean /\ probe.polls >= 2
    /\ Len(probe.zones) = 2
    /\ Len(probe.pushed) = 2
    /\ \E i, j \in 1..2 :
          /\ probe.pushed[i].from = "CorrectedDifference"
          /\ probe.pushed[j].from = "Difference"

\* How many sources the start added for device i.
SourcesFor(i) ==
    Cardinality({ k \in 1..Len(nvidia.ret.sources) : nvidia.ret.sources[k] = i })

\* C21: NvidiaPlugin::start returns an error and adds no source when no
\* device is found or none of the found devices is working; when it returns
\* success it has added exactly one source for each working device and none
\* for a device that is not working.
C21_SourcesOnlyForWorkingDevices ==
    nvidia.called =>
        LET devices == nvidia.machine.devices IN
        /\ (\A i \in 1..Len(devices) : ~devices[i])
              => ~nvidia.ret.ok /\ nvidia.ret.sources = << >>
        /\ nvidia.ret.ok =>
              /\ \A i \in 1..Len(devices) : SourcesFor(i) = (IF devices[i] THEN 1 ELSE 0)
              /\ Len(nvidia.ret.sources) = detection_stats(devices).working_devices

\* A successful start on a machine with two working devices and one that
\* failed: two sources.
C21_Witness ==
    /\ nvidia.called /\ nvidia.ret.ok
    /\ Len(nvidia.machine.devices) = 3
    /\ \E i \in 1..3 : ~nvidia.machine.devices[i]
    /\ Len(nvidia.ret.sources) = 2

\* ------------------------------------------------------------------ specification
Next ==
    \/ \E p \in Slots, f \in Files : Load(p, f)
    \/ \E p \in Slots, c \in BOOLEAN, h \in {NULL} \cup Handles : Initialize(p, c, h)
    \/ \E p \in Slots, nm \in Names, ok \in BOOLEAN : InitStatic(p, nm, ok)
    \/ \E p \in Slots : Register(p)
    \/ BeginSession
    \/ \E p \in Slots, r \in BOOLEAN : StartPlugin(p, r)
    \/ \E p \in Slots, r \in BOOLEAN : PostStartup(p, r)
    \/ EndRun
    \/ \E p \in Slots, r \in BOOLEAN : StopPlugin(p, r)
    \/ EndSession
    \/ Teardown

Spec == Init /\ [][Next]_vars
====
